---- MODULE Spec2Model ----
(***************************************************************************)
(* Model of the two merge-conflict resolution scripts                      *)
(*   src/resolve_conflicts.py   (special-case pass, then keep-theirs pass)  *)
(*   src/resolve_remaining.py   (start-marker check, keep-theirs pass)      *)
(*                                                                         *)
(* A file content (a Python str) is a sequence of tokens.  Each token      *)
(* stands for one literal piece of text; the literals of the two regular   *)
(* expressions are concatenations of whole tokens, and no literal can      *)
(* match across a token boundary, so matching on tokens is matching on     *)
(* the text.                                                               *)
(*   "S"  <<<<<<< HEAD                                                      *)
(*   "M"  =======                                                           *)
(*   "E"  >>>>>>> test/test-failure-analysis                                *)
(*   "O"  >>>>>>> some/other-branch                                         *)
(*   "V"  const vi: typeof import('vitest').vi                              *)
(*   "W"  one blank (matched by \s)                                         *)
(*   "NL" the newline character (matched by \s and, under DOTALL, by .)     *)
(*   "a"  one character of ordinary text                                    *)
(***************************************************************************)
EXTENDS Integers, Sequences, FiniteSets, TLC

VARIABLES
    content,    \* the local `content` of the pass being applied (pure runs)
    prev,       \* `content` before the last re.sub
    last,       \* the last step applied: "read", "special" or "generic"
    step,       \* number of re.sub calls applied so far
    once,       \* the content after the first special+generic application
    script,     \* which script is running (batch runs)
    i,          \* position of the for loop in the path list
    fs,         \* the file system: path -> whether the file exists, its content
    fs0,        \* the file system when the script started
    fault,      \* the I/O failure the environment holds for each path
    out,        \* the lines printed so far
    opened_w    \* the paths that were opened with mode 'w'

vars == <<content, prev, last, step, once, script, i, fs, fs0, fault, out, opened_w>>

pureVars == <<content, prev, last, step, once>>
batchVars == <<script, i, fs, fs0, fault, out, opened_w>>

----------------------------------------------------------------------------
(* Bounds of the model                                                     *)

MaxChunks == 3
NPaths == 2

----------------------------------------------------------------------------
(* Sequence helpers                                                        *)

Min(set) == CHOOSE x \in set : \A y \in set : x <= y

Slice(s, from, to) == IF from > to THEN <<>> ELSE SubSeq(s, from, to)

At(s, p) == IF p >= 1 /\ p <= Len(s) THEN s[p] ELSE "EOF"

----------------------------------------------------------------------------
(* The regular expressions and re.sub                                      *)

\* \s matches a blank or a newline.
IsSpace(t) == t \in {"W", "NL"}

\* vi_conflict_pattern matches s[p..e]: `<<<<<<< HEAD\n`, then \s* (greedy,
\* and the token after it, the `c` of const, is not whitespace, so it takes
\* all the whitespace there is and backtracking gives no other match), then
\* the declaration, `\n=======\n` and the end marker.
ViMatch(s, p, e) ==
    /\ At(s, p) = "S" /\ At(s, p + 1) = "NL"
    /\ \A q \in (p + 2)..(e - 5) : IsSpace(s[q])
    /\ At(s, e - 4) = "V"
    /\ At(s, e - 3) = "NL"
    /\ At(s, e - 2) = "M"
    /\ At(s, e - 1) = "NL"
    /\ At(s, e) = "E"

\* The matches <<p, e>> of vi_conflict_pattern in s that start at pos or
\* later.
vi_conflict_pattern(s, pos) ==
    {m \in (pos..Len(s)) \X (pos..Len(s)) : m[1] + 6 <= m[2] /\ ViMatch(s, m[1], m[2])}

\* `<<<<<<< HEAD\n` at position p.
StartAt(s, p) == At(s, p) = "S" /\ At(s, p + 1) = "NL"

\* `\n=======\n` at position j.
SepAt(s, j) == At(s, j) = "NL" /\ At(s, j + 1) = "M" /\ At(s, j + 2) = "NL"

\* `\n>>>>>>> test/test-failure-analysis` at position k.
EndAt(s, k) == At(s, k) = "NL" /\ At(s, k + 1) = "E"

\* The ways general_conflict_pattern matches in s from pos or later:
\* <<p, j, k>> with the start marker at p, `\n=======\n` at j and the `\n` of
\* the end marker at k.  Group 1 is s[p+2 .. j-1] and group 2 is
\* s[j+3 .. k-1]; under DOTALL both may hold anything, newlines and markers
\* included, and both may be empty.
general_conflict_pattern(s, pos) ==
    {m \in {p \in pos..Len(s) : StartAt(s, p)}
             \X {j \in pos..Len(s) : SepAt(s, j)}
             \X {k \in pos..Len(s) : EndAt(s, k)} :
        m[1] + 2 <= m[2] /\ m[2] + 3 <= m[3]}

\* m comes before o in the order in which the matcher tries the matches:
\* leftmost start first; the groups are lazy (.*?), so the shortest group 1
\* first, then the shortest group 2.
TriedBefore(m, o) ==
    \/ m[1] < o[1]
    \/ m[1] = o[1] /\ m[2] < o[2]
    \/ m[1] = o[1] /\ m[2] = o[2] /\ m[Len(m)] <= o[Len(o)]

\* The match re.sub takes among `matches`.
FirstMatch(matches) == CHOOSE m \in matches : \A o \in matches : TriedBefore(m, o)

\* Variant of keep_theirs that returns match.group(1), the `ours` side.
keep_ours(s, m) == Slice(s, m[1] + 2, m[2] - 1)

\* keep_theirs(match) / lambda m: m.group(2)
keep_theirs(s, m) == Slice(s, m[2] + 3, m[3] - 1)

\* re.sub(vi_conflict_pattern, '', content) on the text from pos on: the
\* text before the first match, nothing for the match, and the same again
\* after the match (matches do not overlap).
RECURSIVE SubSpecial(_, _)
ReplaceSpecial(s, pos, m) == Slice(s, pos, m[1] - 1) \o SubSpecial(s, m[2] + 1)

SubSpecial(s, pos) ==
    IF vi_conflict_pattern(s, pos) = {}
    THEN Slice(s, pos, Len(s))
    ELSE ReplaceSpecial(s, pos, FirstMatch(vi_conflict_pattern(s, pos)))

\* re.sub(general_conflict_pattern, keep_theirs, content, flags=re.DOTALL)
\* on the text from pos on.
RECURSIVE SubGeneral(_, _)
ReplaceGeneral(s, pos, m) ==
    Slice(s, pos, m[1] - 1) \o keep_theirs(s, m) \o SubGeneral(s, m[3] + 2)

SubGeneral(s, pos) ==
    IF general_conflict_pattern(s, pos) = {}
    THEN Slice(s, pos, Len(s))
    ELSE ReplaceGeneral(s, pos, FirstMatch(general_conflict_pattern(s, pos)))

ResolveSpecial(s) == SubSpecial(s, 1)

ResolveGeneric(s) == SubGeneral(s, 1)

\* Variant of NoStartMarker that looks for any conflict marker.
NoMarkerAtAll(s) == \A p \in 1..Len(s) : s[p] \notin {"S", "M", "E", "O"}

\* '<<<<<<< HEAD' not in content
NoStartMarker(s) == \A p \in 1..Len(s) : s[p] # "S"

----------------------------------------------------------------------------
(* Contents the runs start from: up to MaxChunks chunks of lines, joined   *)
(* by newlines.  A chunk is a line (empty, text, a marker, a start marker   *)
(* after text, an end marker with a longer label, the declaration) or a    *)
(* few lines of a conflict region; a final empty line makes the content    *)
(* end with a newline.                                                     *)

Region == <<"S", "NL", "a", "NL", "M", "NL", "a", "NL", "E">>

SpecialRegion == <<"S", "NL", "W", "V", "NL", "M", "NL", "E">>

Chunks ==
    { <<>>, <<"a">>, <<"S">>, <<"a", "S">>, <<"M">>, <<"E">>, <<"O">>, <<"E", "a">>, <<"W", "V">>,
      <<"S", "NL", "a", "NL", "M">>, <<"a", "NL", "E">>, Region, SpecialRegion }

RECURSIVE Join(_)
Join(ls) ==
    IF ls = <<>> THEN <<>>
    ELSE IF Len(ls) = 1 THEN ls[1]
    ELSE ls[1] \o <<"NL">> \o Join(Tail(ls))

Contents == UNION { {Join(cs) : cs \in [1..n -> Chunks]} : n \in 0..MaxChunks }

----------------------------------------------------------------------------
(* The passes applied to a content, as the scripts apply them:             *)
(* resolve_conflicts applies the special-case re.sub and then the generic  *)
(* re.sub; resolve_generic_conflicts applies the generic re.sub alone.     *)
(* The run goes on to a second application of resolve_conflicts to the     *)
(* content the first one produced (the script run again on its output).    *)

PureInit ==
    /\ content \in Contents
    /\ prev = content
    /\ last = "read"
    /\ step = 0
    /\ once = <<>>
    /\ script = "none"
    /\ i = 0
    /\ fs = <<>>
    /\ fs0 = <<>>
    /\ fault = <<>>
    /\ out = <<>>
    /\ opened_w = {}

\* content = re.sub(vi_conflict_pattern, '', content)
SpecialPass ==
    /\ \/ last = "read"
       \/ last = "generic" /\ step = 2
    /\ prev' = content
    /\ content' = ResolveSpecial(content)
    /\ last' = "special"
    /\ step' = step + 1
    /\ once' = once
    /\ UNCHANGED batchVars

\* content = re.sub(general_conflict_pattern, keep_theirs, content, flags=re.DOTALL)
GenericPass ==
    /\ \/ last = "read"
       \/ last = "special"
    /\ prev' = content
    /\ content' = ResolveGeneric(content)
    /\ last' = "generic"
    /\ step' = step + 1
    /\ once' = IF step = 1 THEN content' ELSE once
    /\ UNCHANGED batchVars

PureNext == SpecialPass \/ GenericPass

PureSpec == PureInit /\ [][PureNext]_vars

----------------------------------------------------------------------------
(* The batch: each script walks its path list.                             *)

\* The path lists; a path is named by its position.
conflict_files == [n \in 1..NPaths |-> n]

additional_files == [n \in 1..NPaths |-> n]

\* additional_files maps every path to "test".
Preference(p) == "test"

FilesOf(sc) == IF sc = "resolve_conflicts" THEN conflict_files ELSE additional_files

\* Contents of the files on disk when a script starts.
FileContents ==
    { <<"a", "NL">>,
      <<"M", "NL", "E", "NL">>,
      Region \o <<"NL">>,
      SpecialRegion \o <<"NL">>,
      SpecialRegion \o <<"NL", "a", "NL", "E", "NL">> }

Missing == [exists |-> FALSE, data |-> <<>>]

FileStates == {Missing} \cup {[exists |-> TRUE, data |-> c] : c \in FileContents}

\* What the environment does to the I/O on a path: nothing, open(path, 'r')
\* raises, open(path, 'w') raises, or the write raises after the file was
\* truncated.
Faults == {"none", "read", "open_w", "write"}

Resolved(p) == [kind |-> "resolved", path |-> p, cause |-> "none"]

NoConflict(p) == [kind |-> "no_conflict", path |-> p, cause |-> "none"]

Error(p, e) == [kind |-> "error", path |-> p, cause |-> e]

Init ==
    /\ script \in {"resolve_conflicts", "resolve_remaining"}
    /\ i = 1
    /\ fs \in [1..NPaths -> FileStates]
    /\ fs0 = fs
    /\ fault \in [1..NPaths -> Faults]
    /\ \A p \in 1..NPaths : ~fs[p].exists => fault[p] = "none"
    /\ out = <<>>
    /\ opened_w = {}
    /\ content = <<>>
    /\ prev = <<>>
    /\ last = "idle"
    /\ step = 0
    /\ once = <<>>

Done == i > NPaths

\* Variant of SkipMissing without the os.path.exists test: the handler
\* runs, open() raises and the error is printed.
ReportMissing ==
    /\ script \in {"resolve_conflicts", "resolve_remaining"}
    /\ i <= NPaths
    /\ ~fs[FilesOf(script)[i]].exists
    /\ out' = Append(out, [kind |-> "error", path |-> FilesOf(script)[i], cause |-> "read"])
    /\ i' = i + 1
    /\ UNCHANGED <<script, fs, fs0, fault, opened_w>>
    /\ UNCHANGED pureVars

\* if os.path.exists(file_path): ... with the path missing
SkipMissing ==
    /\ script \in {"resolve_conflicts", "resolve_remaining"}
    /\ ~Done
    /\ ~fs[FilesOf(script)[i]].exists
    /\ i' = i + 1
    /\ UNCHANGED <<script, fs, fs0, fault, out, opened_w>>
    /\ UNCHANGED pureVars

\* with open(file_path, 'w') as f: f.write(new), and the print after it,
\* under the fault f held for path p.
WriteBack(p, new, f) ==
    \/ /\ f = "open_w"
       /\ out' = Append(out, Error(p, "open_w"))
       /\ UNCHANGED <<fs, opened_w>>
    \/ /\ f = "write"
       /\ \E n \in 0..Len(new) :
            fs' = [fs EXCEPT ![p].data = Slice(new, 1, n)]
       /\ opened_w' = opened_w \cup {p}
       /\ out' = Append(out, Error(p, "write"))
    \/ /\ f \notin {"open_w", "write"}
       /\ fs' = [fs EXCEPT ![p].data = new]
       /\ opened_w' = opened_w \cup {p}
       /\ out' = Append(out, Resolved(p))

\* Variant of vi_removed: the special-case re.sub left out.
vi_kept(c) == c

\* content = re.sub(vi_conflict_pattern, '', content) in resolve_conflicts
vi_removed(c) == ResolveSpecial(c)

\* if preference == "test": content = re.sub(pattern, lambda m: m.group(2), ...)
resolve_generic_content(c, preference) ==
    IF preference = "test" THEN ResolveGeneric(c) ELSE c

\* Variant of resolve_conflicts without the try/except around the call: an
\* exception ends the script.
resolve_conflicts_uncaught ==
    /\ script = "resolve_conflicts"
    /\ ~Done
    /\ LET p == conflict_files[i]
       IN  /\ fs[p].exists
           /\ IF fault[p] = "none"
              THEN /\ \E special \in {vi_removed(fs[p].data)} :
                        \E resolved \in {ResolveGeneric(special)} :
                           WriteBack(p, resolved, fault[p])
                   /\ i' = i + 1
              ELSE /\ i' = NPaths + 1
                   /\ UNCHANGED <<fs, opened_w, out>>
    /\ UNCHANGED <<script, fs0, fault>>
    /\ UNCHANGED pureVars

\* One iteration of the loop of resolve_conflicts.py on an existing path:
\* try: resolve_conflicts(file_path) / except Exception: print the error.
\* `special` and `resolved` are the two values assigned to `content`.
resolve_conflicts ==
    /\ script = "resolve_conflicts"
    /\ ~Done
    /\ LET p == conflict_files[i]
       IN  /\ fs[p].exists
           /\ IF fault[p] = "read"
              THEN /\ out' = Append(out, Error(p, "read"))
                   /\ UNCHANGED <<fs, opened_w>>
              ELSE \E special \in {vi_removed(fs[p].data)} :
                     \E resolved \in {ResolveGeneric(special)} :
                        WriteBack(p, resolved, fault[p])
    /\ i' = i + 1
    /\ UNCHANGED <<script, fs0, fault>>
    /\ UNCHANGED pureVars

\* One iteration of the loop of resolve_remaining.py on an existing path:
\* resolve_generic_conflicts(file_path, preference), which catches its own
\* exceptions.
resolve_generic_conflicts ==
    /\ script = "resolve_remaining"
    /\ ~Done
    /\ LET p == additional_files[i]
       IN  /\ fs[p].exists
           /\ IF fault[p] = "read"
              THEN /\ out' = Append(out, Error(p, "read"))
                   /\ UNCHANGED <<fs, opened_w>>
              ELSE IF NoStartMarker(fs[p].data)
              THEN /\ out' = Append(out, NoConflict(p))
                   /\ UNCHANGED <<fs, opened_w>>
              ELSE \E resolved \in {resolve_generic_content(fs[p].data, Preference(p))} :
                     WriteBack(p, resolved, fault[p])
    /\ i' = i + 1
    /\ UNCHANGED <<script, fs0, fault>>
    /\ UNCHANGED pureVars

Next == SkipMissing \/ resolve_conflicts \/ resolve_generic_conflicts

Spec == Init /\ [][Next]_vars

----------------------------------------------------------------------------
(* Conflict regions as the specification describes them, line by line.     *)

\* The lines of a content: the text between newline characters.
RECURSIVE Lines(_)
Lines(s) ==
    LET nls == {p \in 1..Len(s) : s[p] = "NL"}
    IN  IF nls = {} THEN <<s>>
        ELSE <<Slice(s, 1, Min(nls) - 1)>> \o Lines(Slice(s, Min(nls) + 1, Len(s)))

IsStartLine(l) == l = <<"S">>

IsSepLine(l) == l = <<"M">>

\* A line beginning with `>>>>>>> ` followed by a branch identifier.
IsEndLine(l) == Len(l) >= 1 /\ l[1] \in {"E", "O"}

\* The end marker line whose label is exactly test/test-failure-analysis.
IsExpectedEndLine(l) == l = <<"E">>

IsMarkerLine(l) == IsStartLine(l) \/ IsSepLine(l) \/ IsEndLine(l)

\* <<x, y, z>>: lines x < y < z hold the start, separator and end markers
\* of a well-formed region; the segments between them hold no marker line.
WellFormedRegions(ls) ==
    {r \in (1..Len(ls)) \X (1..Len(ls)) \X (1..Len(ls)) :
        /\ r[1] < r[2] /\ r[2] < r[3]
        /\ IsStartLine(ls[r[1]]) /\ IsSepLine(ls[r[2]]) /\ IsEndLine(ls[r[3]])
        /\ \A n \in (r[1] + 1)..(r[3] - 1) : n # r[2] => ~IsMarkerLine(ls[n])}

ExpectedRegions(ls) == {r \in WellFormedRegions(ls) : IsExpectedEndLine(ls[r[3]])}

OtherRegions(ls) == {r \in WellFormedRegions(ls) : ~IsExpectedEndLine(ls[r[3]])}

\* The text of lines x..y of ls, newlines between them included.
LinesText(ls, x, y) == IF x > y THEN <<>> ELSE Join(SubSeq(ls, x, y))

\* Position in the content of the first token of line x.
RECURSIVE LineStart(_, _)
LineStart(ls, x) == IF x = 1 THEN 1 ELSE LineStart(ls, x - 1) + Len(ls[x - 1]) + 1

\* Position in the content of the last token of line x.
LineEnd(ls, x) == LineStart(ls, x) + Len(ls[x]) - 1

\* sub occurs in s at position p.
OccursAt(s, sub, p) == p + Len(sub) - 1 <= Len(s) /\ Slice(s, p, p + Len(sub) - 1) = sub

Occurs(s, sub) == \E p \in 1..(Len(s) + 1) : OccursAt(s, sub, p)

----------------------------------------------------------------------------
(* Claims about the two passes (checked under PureSpec)                    *)

\* C1: the generic keep-theirs pass replaces every well-formed region that
\* carries the expected end-label, empty segments included, by its `theirs`
\* segment: the output contains that `theirs` text verbatim and no
\* well-formed region with the expected end-label remains in it.
C1_GenericResolvesEveryExpectedRegion ==
    last = "generic" =>
        /\ \A r \in ExpectedRegions(Lines(prev)) :
              Occurs(content, LinesText(Lines(prev), r[2] + 1, r[3] - 1))
        /\ ExpectedRegions(Lines(content)) = {}

\* C2: a well-formed region whose end-label is not exactly
\* test/test-failure-analysis is left byte-identical by the special-case
\* pass and by the generic pass: its text, markers and segments, is still
\* in the output.
C2_OtherLabelRegionUntouched ==
    last \in {"special", "generic"} =>
        LET ls == Lines(prev)
        IN  \A r \in OtherRegions(ls) :
              Occurs(content, Slice(prev, LineStart(ls, r[1]), LineEnd(ls, r[3])))

\* The texts of s outside its well-formed regions, in order: the text
\* before the first region, between consecutive regions, after the last.
RECURSIVE OutsideFrom(_, _, _)
OutsideFrom(s, ls, from) ==
    LET later == {r \in WellFormedRegions(ls) : LineStart(ls, r[1]) >= from}
    IN  IF later = {} THEN <<Slice(s, from, Len(s))>>
        ELSE LET r == CHOOSE q \in later : \A o \in later : q[1] <= o[1]
             IN  <<Slice(s, from, LineStart(ls, r[1]) - 1)>>
                   \o OutsideFrom(s, ls, LineEnd(ls, r[3]) + 1)

\* t is pieces[1] X1 pieces[2] X2 ... pieces[n] for some texts X1, X2, ...
\* (`first`: pieces[1] must stand at the very beginning of t).
RECURSIVE Frames(_, _, _)
Frames(pieces, t, first) ==
    IF first
    THEN /\ OccursAt(t, pieces[1], 1)
         /\ IF Len(pieces) = 1 THEN t = pieces[1]
            ELSE Frames(Tail(pieces), Slice(t, Len(pieces[1]) + 1, Len(t)), FALSE)
    ELSE IF Len(pieces) = 1
         THEN OccursAt(t, pieces[1], Len(t) - Len(pieces[1]) + 1)
         ELSE \E p \in 1..(Len(t) + 1) :
                /\ OccursAt(t, pieces[1], p)
                /\ Frames(Tail(pieces), Slice(t, p + Len(pieces[1]), Len(t)), FALSE)

\* C3: either pass changes only text inside well-formed regions: the texts
\* outside the well-formed regions of the input, malformed or partial
\* markers included, are all in the output, byte-identical and in order,
\* with only the regions' places between them rewritten.
C3_TextOutsideRegionsPreserved ==
    last \in {"special", "generic"} =>
        Frames(OutsideFrom(prev, Lines(prev), 1), content, TRUE)

\* C4: the special-case pass deletes the special declaration region with
\* its three marker lines and the end marker's line terminator: a content
\* A + region + newline + B (no other start marker in A or B) becomes A + B,
\* and the region followed by a newline alone becomes the empty string.
C4_SpecialRegionDeletedWithTerminator ==
    last = "special" =>
        \A p \in 1..Len(prev) :
            ( /\ p = 1 \/ prev[p - 1] = "NL"
              /\ OccursAt(prev, SpecialRegion \o <<"NL">>, p)
              /\ "S" \notin {prev[q] : q \in 1..(p - 1)}
              /\ "S" \notin {prev[q] : q \in (p + Len(SpecialRegion) + 1)..Len(prev)} )
            => content = Slice(prev, 1, p - 1)
                           \o Slice(prev, p + Len(SpecialRegion) + 1, Len(prev))

\* C5: idempotence: the special-case pass followed by the generic pass,
\* applied again to the result of a first application, yields the result
\* of the first application.
C5_SecondApplicationChangesNothing ==
    step = 4 => content = once

\* s with whole spans removed gives t, each span beginning at a start
\* marker and ending at an expected end marker.
RECURSIVE DeletesWholeSpans(_, _)
DeletesWholeSpans(s, t) ==
    IF s = <<>> THEN t = <<>>
    ELSE \/ /\ t # <<>>
            /\ Head(s) = Head(t)
            /\ DeletesWholeSpans(Tail(s), Tail(t))
         \/ /\ Head(s) = "S"
            /\ \E k \in 1..Len(s) :
                 s[k] = "E" /\ DeletesWholeSpans(Slice(s, k + 1, Len(s)), t)

\* s with spans removed gives t, the spans coming in pairs: one beginning at
\* a start marker and ending with `\n=======\n`, then, after kept text (the
\* `theirs` of the match), one that is `\n` and the expected end marker.
RECURSIVE DeletesMarkerSpans(_, _, _)
DeletesMarkerSpans(s, t, inTheirs) ==
    IF s = <<>> THEN t = <<>> /\ ~inTheirs
    ELSE \/ /\ t # <<>>
            /\ Head(s) = Head(t)
            /\ DeletesMarkerSpans(Tail(s), Tail(t), inTheirs)
         \/ /\ ~inTheirs
            /\ Head(s) = "S"
            /\ \E j \in 2..Len(s) :
                 /\ At(s, j) = "NL" /\ At(s, j + 1) = "M" /\ At(s, j + 2) = "NL"
                 /\ DeletesMarkerSpans(Slice(s, j + 3, Len(s)), t, TRUE)
         \/ /\ inTheirs
            /\ At(s, 1) = "NL" /\ At(s, 2) = "E"
            /\ DeletesMarkerSpans(Slice(s, 3, Len(s)), t, FALSE)

\* C10 as stated: the output of either pass is the input with zero or more
\* contiguous spans removed, each removed span beginning at a start marker
\* `<<<<<<< HEAD` and ending at an expected end marker.
C10_EachRemovedSpanRunsStartToEnd ==
    last \in {"special", "generic"} => DeletesWholeSpans(prev, content)

\* C10 (amended): the output of either pass is the input with spans removed
\* and nothing inserted, altered or reordered.  The special-case pass
\* removes spans that begin at a start marker and end at an expected end
\* marker.  The generic pass removes, for each match, the span from the
\* start marker through `\n=======\n` and the span made of the newline and
\* the expected end marker, and keeps the text between the two.
C10_OutputIsInputWithMarkerSpansDeleted ==
    /\ last = "special" => DeletesWholeSpans(prev, content)
    /\ last = "generic" => DeletesMarkerSpans(prev, content, FALSE)

\* The generic pass has removed the markers of a match and kept a non-empty
\* `theirs` between them.
C10_Witness ==
    /\ last = "generic"
    /\ content # prev
    /\ content # <<>>
    /\ ~DeletesWholeSpans(prev, content)

----------------------------------------------------------------------------
(* Claims about the batch (checked under Spec)                             *)

\* The lines printed for path p, in order.
OutcomesFor(p) == SelectSeq(out, LAMBDA r : r.path = p)

\* The existing paths the loop has gone past.
Processed == {FilesOf(script)[k] : k \in {n \in 1..NPaths : n < i /\ fs0[FilesOf(script)[n]].exists}}

HasStartMarker(c) == \E q \in 1..Len(c) : c[q] = "S"

C7_OneOutcomePerExistingPathInOrder ==
    /\ [k \in 1..Len(out) |-> out[k].path]
         = SelectSeq(SubSeq(FilesOf(script), 1, i - 1), LAMBDA p : fs0[p].exists)
    /\ \A k \in 1..Len(out) : out[k].kind \in {"resolved", "no_conflict", "error"}
    /\ Done => Len(out) = Cardinality({p \in 1..NPaths : fs0[p].exists})

\* The batch has ended over a list with a missing first path and an existing
\* later one, with one outcome.
C7_Witness ==
    /\ Done
    /\ ~fs0[FilesOf(script)[1]].exists
    /\ fs0[FilesOf(script)[NPaths]].exists
    /\ Len(out) >= 1
    /\ out[Len(out)].path = FilesOf(script)[NPaths]

\* The handler reaches an I/O call that fails on path p.
Fails(p) ==
    \/ fault[p] = "read"
    \/ /\ fault[p] \in {"open_w", "write"}
       /\ script = "resolve_conflicts" \/ HasStartMarker(fs0[p].data)

\* What a path's handler prints and leaves on disk when nothing fails.
NormalOutcome(p) ==
    IF script = "resolve_remaining" /\ ~HasStartMarker(fs0[p].data)
    THEN NoConflict(p)
    ELSE Resolved(p)

NormalData(p) ==
    IF script = "resolve_conflicts"
    THEN ResolveGeneric(ResolveSpecial(fs0[p].data))
    ELSE ResolveGeneric(fs0[p].data)

\* C8: a failing read or write of one existing file is reported as a single
\* `Error processing` outcome for that path, every path without a failure
\* of its own is processed as if no other path had failed, and the batch
\* never stops before the end of the list.
C8_FailureIsReportedAndBatchContinues ==
    /\ \A p \in Processed :
         IF Fails(p)
         THEN OutcomesFor(p) = <<Error(p, fault[p])>>
         ELSE /\ OutcomesFor(p) = <<NormalOutcome(p)>>
              /\ fs[p].data = NormalData(p)
    /\ Done \/ ENABLED Next

\* The batch has ended; an earlier path failed and a later path was resolved.
C8_Witness ==
    /\ Done
    /\ \E k \in 1..Len(out) : \E n \in 1..Len(out) :
         /\ k < n
         /\ out[k].kind = "error"
         /\ out[n].kind = "resolved"
         /\ fs[out[n].path] # fs0[out[n].path]

====
